---- MODULE Spec2Model ----
(***************************************************************************)
(* Model of the data-quality pipeline of src/src: the cleaning primitives  *)
(* of utils.py, the rule engine of rules.py and the orchestration of       *)
(* clean_validate.py.                                                      *)
(*                                                                         *)
(* Text is a sequence of one-character strings.  A cell is a record whose  *)
(* field k names its kind: "null", "str" (field s), "num" (fields m, e:    *)
(* the number m * 10^e, m without trailing zeros) or "date" (fields d, mo, *)
(* y).  A table is [dtype, rows]: dtype maps each column name to the       *)
(* column's pandas dtype and every row maps each column name to a cell.    *)
(***************************************************************************)
EXTENDS Integers, Sequences, FiniteSets, TLC

VARIABLES
    pc,        \* position of the run (or of the function under check)
    dataset,   \* the dataset kind of the run
    nullable,  \* the pandas build: to_numeric on a string column keeps NA masked
    raw,       \* the table as given to the operation
    df,        \* the table the run works on
    check,     \* Rule.run: the rule last run and what its check gave
    results,   \* run_validations: the rule results so far, in order
    report,    \* build_quality_report: the metrics of the report, once built
    clock,     \* wall clock, in seconds
    runs,      \* the concurrent runs: process -> [pc, kind, run_id]
    files      \* output path -> set of processes that wrote it

vars == <<pc, dataset, nullable, raw, df, check, results, report, clock, runs, files>>

(***************************************************************************)
(* Cells                                                                   *)
(***************************************************************************)
NULL == [k |-> "null"]
Str(s) == [k |-> "str", s |-> s]
Num(m, e) == [k |-> "num", m |-> m, e |-> e]
Date(d, mo, y) == [k |-> "date", d |-> d, mo |-> mo, y |-> y]

IsNull(v) == v.k = "null"

(***************************************************************************)
(* Text helpers                                                            *)
(***************************************************************************)
DigitChars == {"0", "1", "2", "3", "4", "5", "6", "7", "8", "9"}

DigitVal(c) ==
    CASE c = "0" -> 0 [] c = "1" -> 1 [] c = "2" -> 2 [] c = "3" -> 3
      [] c = "4" -> 4 [] c = "5" -> 5 [] c = "6" -> 6 [] c = "7" -> 7
      [] c = "8" -> 8 [] c = "9" -> 9

DigitChar(n) ==
    CASE n = 0 -> "0" [] n = 1 -> "1" [] n = 2 -> "2" [] n = 3 -> "3"
      [] n = 4 -> "4" [] n = 5 -> "5" [] n = 6 -> "6" [] n = 7 -> "7"
      [] n = 8 -> "8" [] n = 9 -> "9"

RECURSIVE DigitsToInt(_)
DigitsToInt(s) ==
    IF s = <<>> THEN 0
    ELSE 10 * DigitsToInt(SubSeq(s, 1, Len(s) - 1)) + DigitVal(s[Len(s)])

RECURSIVE IntToDigits(_)
IntToDigits(n) ==
    IF n < 10 THEN <<DigitChar(n)>>
    ELSE Append(IntToDigits(n \div 10), DigitChar(n % 10))

RECURSIVE Zeros(_)
Zeros(n) == IF n <= 0 THEN <<>> ELSE <<"0">> \o Zeros(n - 1)

Abs(n) == IF n < 0 THEN -n ELSE n

RECURSIVE Pow10(_)
Pow10(n) == IF n <= 0 THEN 1 ELSE 10 * Pow10(n - 1)

IndexOf(s, c) ==
    IF \E i \in 1..Len(s) : s[i] = c
    THEN CHOOSE i \in 1..Len(s) : s[i] = c /\ \A j \in 1..(i - 1) : s[j] # c
    ELSE 0

Count(s, c) == Cardinality({i \in 1..Len(s) : s[i] = c})

ReplaceChar(s, a, b) == [i \in 1..Len(s) |-> IF s[i] = a THEN b ELSE s[i]]

(***************************************************************************)
(* Numbers                                                                 *)
(***************************************************************************)
RECURSIVE Norm(_, _)
Norm(m, e) ==
    IF m = 0 THEN Num(0, 0)
    ELSE IF m % 10 = 0 THEN Norm(m \div 10, e + 1)
    ELSE Num(m, e)

RECURSIVE StripLeadingZeros(_)
StripLeadingZeros(s) ==
    IF s # <<>> /\ s[1] = "0" THEN StripLeadingZeros(Tail(s)) ELSE s

RECURSIVE StripTrailingZeros(_)
StripTrailingZeros(s) ==
    IF s # <<>> /\ s[Len(s)] = "0"
    THEN StripTrailingZeros(SubSeq(s, 1, Len(s) - 1)) ELSE s

\* Every integer of at most this many digits fits pandas' int64.
Int64Digits == 18

\* pd.to_numeric(..., errors="coerce") on one text: [ok, isint, v].  The text
\* parses when it is an optional minus sign, then digits with at most one
\* dot, at least one digit in all; anything else is coerced to null.  A text
\* without a dot is an integer unless it is too long for int64.
\* Below, neg: the text has a minus sign; body: the text after the sign; dot:
\* the position of the first dot, 0 if none; ip, fp: the texts before and
\* after the dot; digits: ip and fp together without leading zeros; sig:
\* digits without trailing zeros.
ToNumericText(s) ==
    LET AllDigits(x) == \A i \in 1..Len(x) : x[i] \in DigitChars
        Scaled(neg, fp, digits, sig) ==
            Norm(IF neg THEN -DigitsToInt(sig) ELSE DigitsToInt(sig),
                 Len(digits) - Len(sig) - Len(fp))
        Value(neg, fp, digits) ==
            Scaled(neg, fp, digits, StripTrailingZeros(digits))
        Parts(neg, dot, ip, fp) ==
            IF AllDigits(ip) /\ AllDigits(fp) /\ Len(ip) + Len(fp) > 0
            THEN [ok |-> TRUE,
                  isint |-> dot = 0 /\ Len(StripLeadingZeros(ip)) <= Int64Digits,
                  v |-> Value(neg, fp, StripLeadingZeros(ip \o fp))]
            ELSE [ok |-> FALSE, isint |-> FALSE, v |-> NULL]
        Split(neg, body, dot) ==
            IF dot = 0 THEN Parts(neg, dot, body, <<>>)
            ELSE Parts(neg, dot, SubSeq(body, 1, dot - 1),
                       SubSeq(body, dot + 1, Len(body)))
        Unsigned(neg, body) == Split(neg, body, IndexOf(body, "."))
        Signed(neg) == Unsigned(neg, IF neg THEN Tail(s) ELSE s)
    IN  Signed(Len(s) > 0 /\ s[1] = "-")

\* str(x) of a Python float x = m * 10^e: positional notation when the
\* decimal point position is in -3..16, exponent notation otherwise.
\* Below, ds: the digits of |m|; decpt: the position of the decimal point
\* in ds; ex: the exponent written; exd: its digits, at least two.
FloatText(m, e) ==
    LET TwoDigits(exd) == IF Len(exd) < 2 THEN <<"0">> \o exd ELSE exd
        Exponent(ds, ex) ==
            <<ds[1]>>
              \o (IF Len(ds) > 1 THEN <<".">> \o SubSeq(ds, 2, Len(ds)) ELSE <<>>)
              \o <<"e", IF ex < 0 THEN "-" ELSE "+">>
              \o TwoDigits(IntToDigits(Abs(ex)))
        Positional(ds, decpt) ==
            IF decpt <= 0 THEN <<"0", ".">> \o Zeros(-decpt) \o ds
            ELSE IF decpt < Len(ds)
            THEN SubSeq(ds, 1, decpt) \o <<".">> \o SubSeq(ds, decpt + 1, Len(ds))
            ELSE ds \o Zeros(decpt - Len(ds)) \o <<".", "0">>
        Placed(ds, decpt) ==
            IF decpt > -4 /\ decpt <= 16 THEN Positional(ds, decpt)
            ELSE Exponent(ds, decpt - 1)
        Digits(ds) == Placed(ds, Len(ds) + e)
    IN  (IF m < 0 THEN <<"-">> ELSE <<>>)
          \o (IF m = 0 THEN <<"0", ".", "0">> ELSE Digits(IntToDigits(Abs(m))))

\* str(n) of an integer n = m * 10^e (e >= 0).
IntText(m, e) ==
    (IF m < 0 THEN <<"-">> ELSE <<>>) \o IntToDigits(Abs(m)) \o Zeros(e)


(***************************************************************************)
(* Tables                                                                  *)
(***************************************************************************)
Cols(t) == DOMAIN t.dtype

\* df[c] = series: the column c is replaced (or added) with dtype dt.
SetColumn(t, c, dt, series) ==
    [dtype |-> [x \in Cols(t) \cup {c} |-> IF x = c THEN dt ELSE t.dtype[x]],
     rows  |-> [i \in 1..Len(t.rows) |->
                  [x \in Cols(t) \cup {c} |->
                      IF x = c THEN series[i] ELSE t.rows[i][x]]]]

NaText == <<"<", "N", "A", ">">>
NanText == <<"n", "a", "n">>

Pad2(n) == (IF n < 10 THEN <<"0">> ELSE <<>>) \o IntToDigits(n)

DateText(v) == IntToDigits(v.y) \o <<"-">> \o Pad2(v.mo) \o <<"-">> \o Pad2(v.d)

\* Series.astype("string") on one cell of a column of dtype dt: a null stays
\* null (NA), a number is written as Python writes it.
AsTypeString(dt, v) ==
    CASE v.k = "null" -> NULL
      [] v.k = "str"  -> v
      [] v.k = "num"  -> Str(IF dt = "int" THEN IntText(v.m, v.e)
                             ELSE FloatText(v.m, v.e))
      [] v.k = "date" -> Str(DateText(v))

\* Series.astype(str) on one cell: never null; a null becomes the text "<NA>"
\* in a string-typed column and "nan" (or "NaT") elsewhere.
AsTypeStr(dt, v) ==
    CASE v.k = "null" -> IF dt = "string" THEN NaText
                         ELSE IF dt = "datetime" THEN <<"N", "a", "T">>
                         ELSE IF dt = "int" THEN NaText
                         ELSE NanText
      [] OTHER -> AsTypeString(dt, v).s

(***************************************************************************)
(* utils.normalize_strings                                                 *)
(***************************************************************************)
WhiteChars == {" ", "\t", "\n"}

UpperLetters ==
    <<"A", "B", "C", "D", "E", "F", "G", "H", "I", "J", "K", "L", "M",
      "N", "O", "P", "Q", "R", "S", "T", "U", "V", "W", "X", "Y", "Z">>

LowerLetters ==
    <<"a", "b", "c", "d", "e", "f", "g", "h", "i", "j", "k", "l", "m",
      "n", "o", "p", "q", "r", "s", "t", "u", "v", "w", "x", "y", "z">>

LowerChar(c) ==
    IF \E i \in 1..26 : UpperLetters[i] = c
    THEN LowerLetters[CHOOSE i \in 1..26 : UpperLetters[i] = c] ELSE c

UpperChar(c) ==
    IF \E i \in 1..26 : LowerLetters[i] = c
    THEN UpperLetters[CHOOSE i \in 1..26 : LowerLetters[i] = c] ELSE c

IsLetter(c) == \E i \in 1..26 : UpperLetters[i] = c \/ LowerLetters[i] = c

\* str.lower()
Lower(s) == [i \in 1..Len(s) |-> LowerChar(s[i])]

\* str.title(): a letter that follows a non-letter is upper-cased, every
\* other letter lower-cased.
Title(s) ==
    [i \in 1..Len(s) |->
        IF i = 1 \/ ~IsLetter(s[i - 1]) THEN UpperChar(s[i]) ELSE LowerChar(s[i])]

RECURSIVE LStrip(_)
LStrip(s) == IF s # <<>> /\ s[1] \in WhiteChars THEN LStrip(Tail(s)) ELSE s

RECURSIVE RStrip(_)
RStrip(s) ==
    IF s # <<>> /\ s[Len(s)] \in WhiteChars
    THEN RStrip(SubSeq(s, 1, Len(s) - 1)) ELSE s

\* str.strip()
Strip(s) == RStrip(LStrip(s))

\* str.replace(r"\s+", " ", regex=True): every run of whitespace becomes one
\* space.
RECURSIVE CollapseSpaces(_)
CollapseSpaces(s) ==
    IF s = <<>> THEN <<>>
    ELSE IF s[1] \in WhiteChars
    THEN <<" ">> \o CollapseSpaces(LStrip(s))
    ELSE <<s[1]>> \o CollapseSpaces(Tail(s))

LowerCols == {"channel", "source", "status"}
TitleCols == {"city", "region", "product"}

NormalizeText(c, s) ==
    LET Titled(b) == IF c \in TitleCols THEN Title(Lower(b)) ELSE b
        Lowered(a) == Titled(IF c \in LowerCols THEN Lower(a) ELSE a)
    IN  Lowered(CollapseSpaces(Strip(s)))

NormalizeColumn(t, c) ==
    LET Normalized(v) == IF IsNull(v) THEN NULL ELSE Str(NormalizeText(c, v.s))
    IN  SetColumn(t, c, "string",
            [i \in 1..Len(t.rows) |->
                Normalized(AsTypeString(t.dtype[c], t.rows[i][c]))])

RECURSIVE normalize_strings(_, _)
normalize_strings(t, cols) ==
    IF cols = <<>> THEN t
    ELSE normalize_strings(
            IF Head(cols) \in Cols(t) THEN NormalizeColumn(t, Head(cols)) ELSE t,
            Tail(cols))


(***************************************************************************)
(* utils.parse_dates_flex                                                  *)
(***************************************************************************)
DateSeps == {"/", "-"}

\* The fields of a text between its separators.
RECURSIVE Fields(_)
Fields(s) ==
    IF \E i \in 1..Len(s) : s[i] \in DateSeps
    THEN LET i == CHOOSE j \in 1..Len(s) :
                      s[j] \in DateSeps /\ \A h \in 1..(j - 1) : s[h] \notin DateSeps
         IN  <<SubSeq(s, 1, i - 1)>> \o Fields(SubSeq(s, i + 1, Len(s)))
    ELSE <<s>>

IsLeap(y) == (y % 4 = 0 /\ y % 100 # 0) \/ y % 400 = 0

DaysInMonth(mo, y) ==
    IF mo = 2 THEN (IF IsLeap(y) THEN 29 ELSE 28)
    ELSE IF mo \in {4, 6, 9, 11} THEN 30 ELSE 31

ValidDate(d, mo, y) == mo \in 1..12 /\ d >= 1 /\ d <= DaysInMonth(mo, y)

\* pd.to_datetime(s, errors="coerce", dayfirst=...) on one text: three
\* numeric fields, either year-month-day (a four-digit first field, the same
\* under both settings) or two fields and a four-digit year, read as
\* day/month when dayfirst and as month/day otherwise; a text that is no
\* valid date in that reading is coerced to null (NaT).
ToDatetimeText(s, dayfirst) ==
    LET IsField(x) ==
            x # <<>> /\ Len(x) <= 4 /\ \A j \in 1..Len(x) : x[j] \in DigitChars
        Checked(d, mo, y) == IF ValidDate(d, mo, y) THEN Date(d, mo, y) ELSE NULL
        Read(n1, n2, n3, iso) ==
            IF iso THEN Checked(n3, n2, n1)
            ELSE IF dayfirst THEN Checked(n1, n2, n3) ELSE Checked(n2, n1, n3)
        Parsed(f) ==
            IF /\ Len(f) = 3
               /\ \A i \in 1..3 : IsField(f[i])
               /\ IF Len(f[1]) = 4 THEN Len(f[3]) <= 2 ELSE Len(f[3]) = 4
            THEN Read(DigitsToInt(f[1]), DigitsToInt(f[2]), DigitsToInt(f[3]),
                      Len(f[1]) = 4)
            ELSE NULL
    IN  Parsed(Fields(s))

ToDatetime(t, c, dayfirst) ==
    LET Parsed(v) == IF IsNull(v) THEN NULL ELSE ToDatetimeText(v.s, dayfirst)
    IN  [i \in 1..Len(t.rows) |->
            Parsed(AsTypeString(t.dtype[c], t.rows[i][c]))]

NotNaCount(series) == Cardinality({i \in DOMAIN series : ~IsNull(series[i])})

\* Series.notna().mean() as the fraction num/den; den = 0 is the NaN of an
\* empty column.
NotNaMean(series) == [num |-> NotNaCount(series), den |-> Len(series)]

\* a >= b on two means; a comparison with NaN is False.
MeanGE(a, b) == a.den > 0 /\ b.den > 0 /\ a.num * b.den >= b.num * a.den

DayfirstChosenMut(dayfirst_ok, monthfirst_ok) ==
    ~MeanGE(monthfirst_ok, dayfirst_ok)

\* dayfirst_ok >= monthfirst_ok
DayfirstChosen(dayfirst_ok, monthfirst_ok) == MeanGE(dayfirst_ok, monthfirst_ok)

ChosenDatesMut(parsed_dayfirst, parsed_monthfirst) ==
    [i \in DOMAIN parsed_dayfirst |->
        IF IsNull(parsed_dayfirst[i]) THEN parsed_monthfirst[i]
        ELSE parsed_dayfirst[i]]

\* chosen = parsed_dayfirst if dayfirst_ok >= monthfirst_ok else parsed_monthfirst
ChosenDates(parsed_dayfirst, parsed_monthfirst) ==
    IF DayfirstChosen(NotNaMean(parsed_dayfirst), NotNaMean(parsed_monthfirst))
    THEN parsed_dayfirst ELSE parsed_monthfirst

parse_dates_flex(t, col) ==
    IF col \notin Cols(t) THEN t
    ELSE SetColumn(t, col, "datetime",
            ChosenDates(ToDatetime(t, col, TRUE), ToDatetime(t, col, FALSE)))

(***************************************************************************)
(* utils.coerce_numeric                                                    *)
(***************************************************************************)
NumericChars == DigitChars \cup {"-", ".", ","}

\* str.replace(r"[^\d\-\.,]", "", regex=True)
KeepNumericChars(s) == SelectSeq(s, LAMBDA ch : ch \in NumericChars)

\* The texts of the column after the two replacements.
NumericTexts(t, c) ==
    LET Replaced(v) ==
            IF IsNull(v) THEN NULL
            ELSE Str(ReplaceChar(KeepNumericChars(v.s), ",", "."))
    IN  [i \in 1..Len(t.rows) |->
            Replaced(AsTypeString(t.dtype[c], t.rows[i][c]))]

\* The dtype pd.to_numeric gives the column: integer when every text is an
\* integer; a null forces float64 unless the build keeps nulls masked.
NumericDtype(texts, nb) ==
    IF /\ \A i \in DOMAIN texts :
            IF IsNull(texts[i]) THEN nb ELSE ToNumericText(texts[i].s).isint
       /\ (\E i \in DOMAIN texts : ~IsNull(texts[i])) \/ texts = <<>>
    THEN "int" ELSE "float"

CoerceColumnMut(t, c, nb) ==
    IF \E i \in 1..Len(t.rows) :
          /\ ~IsNull(NumericTexts(t, c)[i])
          /\ ~ToNumericText(NumericTexts(t, c)[i].s).ok
    THEN SetColumn(t, c, "object", NumericTexts(t, c))
    ELSE SetColumn(t, c, NumericDtype(NumericTexts(t, c), nb),
            [i \in 1..Len(t.rows) |->
                IF IsNull(NumericTexts(t, c)[i]) THEN NULL
                ELSE ToNumericText(NumericTexts(t, c)[i].s).v])

CoerceColumn(t, c, nb) ==
    LET Coerced(texts) ==
            SetColumn(t, c, NumericDtype(texts, nb),
                [i \in 1..Len(t.rows) |->
                    IF IsNull(texts[i]) THEN NULL
                    ELSE ToNumericText(texts[i].s).v])
    IN  Coerced(NumericTexts(t, c))

RECURSIVE coerce_numeric(_, _, _)
coerce_numeric(t, cols, nb) ==
    IF cols = <<>> THEN t
    ELSE coerce_numeric(
            IF Head(cols) \in Cols(t) THEN CoerceColumn(t, Head(cols), nb) ELSE t,
            Tail(cols), nb)

(***************************************************************************)
(* utils.deduplicate                                                       *)
(***************************************************************************)
SameKey(r1, r2, subset) == \A c \in subset : r1[c] = r2[c]

KeptFirstMut(t, subset) ==
    {i \in 1..Len(t.rows) :
        \A j \in (i + 1)..Len(t.rows) : ~SameKey(t.rows[j], t.rows[i], subset)}

\* DataFrame.drop_duplicates(subset, keep="first"): the positions kept.  Two
\* nulls are the same key.
KeptFirst(t, subset) ==
    {i \in 1..Len(t.rows) :
        \A j \in 1..(i - 1) : ~SameKey(t.rows[j], t.rows[i], subset)}

RECURSIVE Take(_, _, _)
Take(rows, keep, i) ==
    IF i > Len(rows) THEN <<>>
    ELSE (IF i \in keep THEN <<rows[i]>> ELSE <<>>) \o Take(rows, keep, i + 1)

deduplicate(t, subset) ==
    [dtype |-> t.dtype, rows |-> Take(t.rows, KeptFirst(t, subset), 1)]


(***************************************************************************)
(* Arithmetic on number cells.  Numbers are decimal and exact; every value *)
(* of the input sets below is far from a rounding boundary of float64.     *)
(***************************************************************************)
NumDigits(m) == Len(IntToDigits(Abs(m)))

Sign(m) == IF m > 0 THEN 1 ELSE IF m < 0 THEN -1 ELSE 0

\* a < b for non-negative a and b
MagLT(a, b) ==
    IF a.m = 0 \/ b.m = 0 THEN a.m = 0 /\ b.m # 0
    ELSE LET da == NumDigits(a.m) + a.e
             db == NumDigits(b.m) + b.e
             lo == IF a.e < b.e THEN a.e ELSE b.e
         IN  IF da # db THEN da < db
             ELSE a.m * Pow10(a.e - lo) < b.m * Pow10(b.e - lo)

NumAbs(a) == Num(Abs(a.m), a.e)

NumLT(a, b) ==
    IF Sign(a.m) # Sign(b.m) THEN Sign(a.m) < Sign(b.m)
    ELSE IF Sign(a.m) >= 0 THEN MagLT(a, b)
    ELSE MagLT(NumAbs(b), NumAbs(a))

NumGT(a, b) == NumLT(b, a)

NumMul(a, b) == Norm(a.m * b.m, a.e + b.e)

NumSub(a, b) ==
    LET lo == IF a.e < b.e THEN a.e ELSE b.e
    IN  Norm(a.m * Pow10(a.e - lo) - b.m * Pow10(b.e - lo), lo)

(***************************************************************************)
(* rules.Rule and rules.get_rules_for_dataset                              *)
(***************************************************************************)
MaskOf(m) == [kind |-> "mask", mask |-> m]
Raise(err) == [kind |-> "raise", error |-> err]
\* a value that is no Series: it has no sum
NoSum == [kind |-> "nosum"]

NumericDtypes == {"int", "float"}

IsNa(t, c) == [i \in 1..Len(t.rows) |-> IsNull(t.rows[i][c])]

\* series < n, series > n: False on a null
ColLT(t, c, n) ==
    [i \in 1..Len(t.rows) |-> ~IsNull(t.rows[i][c]) /\ NumLT(t.rows[i][c], n)]

ColGT(t, c, n) ==
    [i \in 1..Len(t.rows) |-> ~IsNull(t.rows[i][c]) /\ NumGT(t.rows[i][c], n)]

Or(a, b) == [i \in DOMAIN a |-> a[i] \/ b[i]]

GuardedMut(t, cols, nums, mask) ==
    IF \E i \in 1..Len(cols) : cols[i] \notin Cols(t)
    THEN MaskOf([i \in 1..Len(t.rows) |-> FALSE])
    ELSE IF \E c \in nums : t.dtype[c] \notin NumericDtypes THEN Raise("TypeError")
    ELSE MaskOf(mask)

\* The outcome of a check that reads the columns cols, the columns nums among
\* them in arithmetic or an ordering: KeyError on a missing column, TypeError
\* on text or dates where numbers are needed, the mask otherwise.
Guarded(t, cols, nums, mask) ==
    IF \E i \in 1..Len(cols) : cols[i] \notin Cols(t) THEN Raise("KeyError")
    ELSE IF \E c \in nums : t.dtype[c] \notin NumericDtypes THEN Raise("TypeError")
    ELSE MaskOf(mask)

DuplicatedMut(t, c) ==
    [i \in 1..Len(t.rows) |-> \E j \in 1..(i - 1) : t.rows[j][c] = t.rows[i][c]]

\* Series.duplicated(keep=False): every row whose value occurs again, the
\* first occurrence included; nulls equal each other.
Duplicated(t, c) ==
    [i \in 1..Len(t.rows) |->
        \E j \in 1..Len(t.rows) : j # i /\ t.rows[j][c] = t.rows[i][c]]

ToleranceMut == 1 + 1

\* the tolerance of S004_revenue_consistency
Tolerance == 1

\* (d["qty"] * d["unit_price"] - d["revenue"]).abs() > 1: False when any of
\* the three is null
RevenueOff(r) ==
    /\ ~IsNull(r["qty"]) /\ ~IsNull(r["unit_price"]) /\ ~IsNull(r["revenue"])
    /\ NumGT(NumAbs(NumSub(NumMul(r["qty"], r["unit_price"]), r["revenue"])),
             Num(Tolerance, 0))

MatchEmailMut(s0) == s0 # <<>> /\ \A i \in 1..Len(s0) : s0[i] \notin WhiteChars

\* re.match(r"^[^@\s]+@[^@\s]+\.[^@\s]+$", s): no whitespace, exactly one
\* "@" with text before it, and after it a dot with text on both sides; "$"
\* also matches before one trailing newline.
MatchEmail(s0) ==
    LET s  == IF s0 # <<>> /\ s0[Len(s0)] = "\n"
              THEN SubSeq(s0, 1, Len(s0) - 1) ELSE s0
        at == IndexOf(s, "@")
    IN  /\ \A i \in 1..Len(s) : s[i] \notin WhiteChars
        /\ Count(s, "@") = 1
        /\ at > 1
        /\ \E j \in (at + 2)..(Len(s) - 1) : s[j] = "."

StrColumn(t, c) == [i \in 1..Len(t.rows) |-> AsTypeStr(t.dtype[c], t.rows[i][c])]

S001 == "S001_qty_positive"
S002 == "S002_unit_price_reasonable"
S003 == "S003_order_date_present"
S004 == "S004_revenue_consistency"
S005 == "S005_region_not_null"
S006 == "S006_order_id_unique"
L001 == "L001_email_format"
L002 == "L002_phone_length"
L003 == "L003_created_at_valid"
L004 == "L004_score_range"
L005 == "L005_lead_id_unique"

\* The check of each rule: its failure mask (TRUE = the row violates the rule).
Check(rule_id, t) ==
    LET n == Len(t.rows) IN
    CASE rule_id = S001 ->
            Guarded(t, <<"qty">>, {"qty"},
                Or(IsNa(t, "qty"), ColLT(t, "qty", Num(1, 0))))
      [] rule_id = S002 ->
            Guarded(t, <<"unit_price">>, {"unit_price"},
                Or(Or(IsNa(t, "unit_price"), ColLT(t, "unit_price", Num(1, 3))),
                   ColGT(t, "unit_price", Num(2, 5))))
      [] rule_id = S003 ->
            Guarded(t, <<"order_date">>, {}, IsNa(t, "order_date"))
      [] rule_id = S004 ->
            Guarded(t, <<"revenue", "qty", "unit_price">>,
                {"revenue", "qty", "unit_price"},
                Or(IsNa(t, "revenue"), [i \in 1..n |-> RevenueOff(t.rows[i])]))
      [] rule_id = S005 ->
            Guarded(t, <<"region">>, {},
                Or(IsNa(t, "region"),
                   [i \in 1..n |-> Strip(StrColumn(t, "region")[i]) = <<>>]))
      [] rule_id = S006 ->
            Guarded(t, <<"order_id">>, {}, Duplicated(t, "order_id"))
      [] rule_id = L001 ->
            Guarded(t, <<"email">>, {},
                [i \in 1..n |-> ~MatchEmail(StrColumn(t, "email")[i])])
      [] rule_id = L002 ->
            Guarded(t, <<"phone">>, {},
                [i \in 1..n |-> Len(StrColumn(t, "phone")[i]) # 10])
      [] rule_id = L003 ->
            Guarded(t, <<"created_at">>, {}, IsNa(t, "created_at"))
      [] rule_id = L004 ->
            Guarded(t, <<"score">>, {"score"},
                Or(Or(IsNa(t, "score"), ColLT(t, "score", Num(0, 0))),
                   ColGT(t, "score", Num(1, 2))))
      [] rule_id = L005 ->
            Guarded(t, <<"lead_id">>, {}, Duplicated(t, "lead_id"))

Severity(rule_id) ==
    IF rule_id \in {S004, S005, L002, L004} THEN "warn" ELSE "error"

SalesRules == <<S001, S002, S003, S004, S005, S006>>
LeadsRules == <<L001, L002, L003, L004, L005>>

get_rules_for_datasetMut(kind) ==
    IF kind = "sales" THEN [ok |-> TRUE, rules |-> SalesRules]
    ELSE [ok |-> TRUE, rules |-> LeadsRules]

\* get_rules_for_dataset: the rule list, or ValueError on an unknown kind
get_rules_for_dataset(kind) ==
    IF kind = "sales" THEN [ok |-> TRUE, rules |-> SalesRules]
    ELSE IF kind = "leads" THEN [ok |-> TRUE, rules |-> LeadsRules]
    ELSE [ok |-> FALSE, rules |-> <<>>]

\* int(fail_mask.sum()) if hasattr(fail_mask, "sum") else 0
FailedCountMut(out) ==
    IF out.kind = "mask" THEN Cardinality({i \in DOMAIN out.mask : ~out.mask[i]})
    ELSE 0

FailedCount(out) ==
    IF out.kind = "mask" THEN Cardinality({i \in DOMAIN out.mask : out.mask[i]})
    ELSE 0

SampleSizeMut == 5 - 1

\* head(5)
SampleSize == 5

Head5(rows) ==
    IF Len(rows) <= SampleSize THEN rows ELSE SubSeq(rows, 1, SampleSize)

\* df.loc[fail_mask].head(5).to_dict(orient="records") if failed_count else []
Sample(t, out) ==
    IF FailedCount(out) # 0
    THEN Head5(Take(t.rows, {i \in DOMAIN out.mask : out.mask[i]}, 1))
    ELSE <<>>

StatusMut(failed_count) == IF failed_count <= 1 THEN "PASS" ELSE "FAIL"

Status(failed_count) == IF failed_count = 0 THEN "PASS" ELSE "FAIL"

ZeroFailures(rule_id) ==
    [kind |-> "result", rule_id |-> rule_id, severity |-> Severity(rule_id),
     status |-> "PASS", failed_count |-> 0, failed_sample |-> <<>>]

RuleRunMut(rule_id, t, out) ==
    IF out.kind = "mask"
    THEN [kind |-> "result",
          rule_id |-> rule_id,
          severity |-> Severity(rule_id),
          status |-> Status(FailedCount(out)),
          failed_count |-> FailedCount(out),
          failed_sample |-> Sample(t, out)]
    ELSE ZeroFailures(rule_id)

\* Rule.run with the outcome `out` of self.check(df); an exception of the
\* check is not caught and leaves run.
RuleRun(rule_id, t, out) ==
    IF out.kind = "raise" THEN out
    ELSE [kind |-> "result",
          rule_id |-> rule_id,
          severity |-> Severity(rule_id),
          status |-> Status(FailedCount(out)),
          failed_count |-> FailedCount(out),
          failed_sample |-> Sample(t, out)]

AfterRunMut(t, out) ==
    IF out.kind = "mask"
    THEN [dtype |-> t.dtype,
          rows |-> Take(t.rows, {i \in DOMAIN out.mask : ~out.mask[i]}, 1)]
    ELSE t

\* The caller's table after rule.run(df): the check builds new Series and
\* df.loc[fail_mask].head(5) is a copy, so the table is as it was.
AfterRun(t, out) == t

\* The loop of run_validations over the rules in the given order: the results
\* in insertion order; an exception ends the loop.
RECURSIVE RunInOrder(_, _)
RunInOrder(order, t) ==
    LET Stored(out, r) ==
            IF r.kind = "raise" THEN <<>>
            ELSE <<r>> \o RunInOrder(Tail(order), AfterRun(t, out))
        Ran(out) == Stored(out, RuleRun(Head(order), t, out))
    IN  IF order = <<>> THEN <<>> ELSE Ran(Check(Head(order), t))

(***************************************************************************)
(* Input sets                                                              *)
(***************************************************************************)
\* All sequences over S of length lo..hi.
SeqsOf(S, lo, hi) == UNION {[1..n -> S] : n \in lo..hi}

NoTable == [dtype |-> <<>>, rows |-> <<>>]
NoReport == [built |-> FALSE]
NoCheck == [rule_id |-> "", out |-> [kind |-> "none"]]

\* What a specification that runs no concurrent processes leaves alone.
NoRuns == clock = 0 /\ runs = <<>> /\ files = {}

(***************************************************************************)
(* SpecDedup: deduplicate applied to a table keyed by order_id             *)
(***************************************************************************)
MaxDedupRows == 3

DedupKeys == {NULL, Num(1, 1), Num(2, 1)}
DedupNotes == {Str(<<"a">>), Str(<<"b">>), Str(<<"c">>)}

DedupRows == {[order_id |-> k, notes |-> x] : k \in DedupKeys, x \in DedupNotes}

DedupTables ==
    {[dtype |-> [order_id |-> "float", notes |-> "string"], rows |-> r] :
        r \in SeqsOf(DedupRows, 0, MaxDedupRows)}

InitDedup ==
    /\ pc = "input"
    /\ dataset = "sales"
    /\ nullable = FALSE
    /\ raw \in DedupTables
    /\ df = raw
    /\ check = NoCheck
    /\ results = <<>>
    /\ report = NoReport
    /\ NoRuns

Deduplicate ==
    /\ pc = "input"
    /\ df' = deduplicate(df, {"order_id"})
    /\ pc' = "deduplicated"
    /\ UNCHANGED <<dataset, nullable, raw, check, results, report, clock, runs, files>>

NextDedup == Deduplicate

SpecDedup == InitDedup /\ [][NextDedup]_vars

\* The first position of raw whose order_id is k.
FirstWithKey(k) ==
    CHOOSE i \in 1..Len(raw.rows) :
        /\ raw.rows[i]["order_id"] = k
        /\ \A j \in 1..(i - 1) : raw.rows[j]["order_id"] # k

\* C1: after deduplicate on the key column the output has at most as many
\* rows as the input, every key value of the input occurs in exactly one
\* output row (null is one key value), that row is the first input row with
\* the value, and the output rows are in input order.
C1_DedupFirstOccurrence ==
    pc = "deduplicated" =>
        LET n == Len(df.rows)
            keys == {raw.rows[i]["order_id"] : i \in 1..Len(raw.rows)}
        IN  /\ n <= Len(raw.rows)
            /\ \A i, j \in 1..n :
                  i # j => df.rows[i]["order_id"] # df.rows[j]["order_id"]
            /\ \A k \in keys : \E i \in 1..n : df.rows[i]["order_id"] = k
            /\ \A i \in 1..n :
                  /\ df.rows[i]["order_id"] \in keys
                  /\ df.rows[i] = raw.rows[FirstWithKey(df.rows[i]["order_id"])]
            /\ \A i, j \in 1..n :
                  i < j => FirstWithKey(df.rows[i]["order_id"])
                             < FirstWithKey(df.rows[j]["order_id"])

\* Two null-key rows with different notes and a repeated non-null key went
\* through deduplicate.
C1_Witness ==
    /\ pc = "deduplicated"
    /\ Len(raw.rows) = 3
    /\ IsNull(raw.rows[1]["order_id"])
    /\ IsNull(raw.rows[3]["order_id"])
    /\ raw.rows[1]["notes"] # raw.rows[3]["notes"]
    /\ Len(df.rows) = 2
    /\ df.rows[1] = raw.rows[1]


(***************************************************************************)
(* SpecRules: Rule.run called on its own and run_validations, on cleaned   *)
(* tables                                                                  *)
(***************************************************************************)
MaxRuleRows == 3
MaxLongRows == 6
MaxVariantRows == 1

ADate == Date(3, 4, 2024)
North == Str(<<"N", "o", "r", "t", "h">>)

SalesDtype ==
    [qty |-> "float", unit_price |-> "float", revenue |-> "float",
     order_id |-> "float", region |-> "string", order_date |-> "datetime"]

SalesRow(q, p, r, id, reg, d) ==
    [qty |-> q, unit_price |-> p, revenue |-> r, order_id |-> id,
     region |-> reg, order_date |-> d]

SalesLongRows ==
    {SalesRow(Num(2, 0), Num(1, 2), Num(199, 0), Num(1, 1), North, ADate),
     SalesRow(Num(2, 0), Num(1, 2), Num(198, 0), Num(1, 1), NULL, NULL)}

SalesCleanRows ==
    SalesLongRows \cup
    {SalesRow(Num(2, 0), Num(1, 2), Num(1979, -1), Num(2, 1), Str(<<>>), ADate),
     SalesRow(NULL, Num(1, 3), NULL, NULL, North, ADate),
     SalesRow(Num(0, 0), Num(2, 5), Num(0, 0), NULL, North, NULL),
     SalesRow(Num(-2, 0), Num(200001, 0), Num(5, 0), Num(3, 1), North, ADate),
     SalesRow(Num(1, 0), NULL, Num(5, 0), Num(3, 1), North, ADate)}

LeadsDtype ==
    [email |-> "string", phone |-> "object", created_at |-> "datetime",
     score |-> "float", lead_id |-> "float"]

LeadsRow(em, ph, d, sc, id) ==
    [email |-> em, phone |-> ph, created_at |-> d, score |-> sc, lead_id |-> id]

GoodPhone == Str(<<"3", "0", "0", "1", "2", "3", "4", "5", "6", "7">>)

LeadsLongRows ==
    {LeadsRow(Str(<<"a", "@", "b", ".", "c", "o">>), GoodPhone, ADate,
              Num(5, 1), Num(1, 0)),
     LeadsRow(Str(<<"n", "o", "t", "-", "a", "n", "-", "e", "m", "a", "i", "l">>),
              Str(<<"1", "2", "3">>), NULL, NULL, Num(1, 0))}

LeadsCleanRows ==
    LeadsLongRows \cup
    {LeadsRow(NULL, Str(<<>>), ADate, Num(101, 0), NULL),
     LeadsRow(Str(<<"a", "@", "b">>), GoodPhone, ADate, Num(0, 0), Num(2, 0)),
     LeadsRow(Str(<<"a", " ", "b", "@", "c", ".", "d">>), GoodPhone, NULL,
              Num(-1, 0), NULL),
     LeadsRow(Str(<<"@", "b", ".", "c">>), GoodPhone, ADate, Num(1, 2), Num(3, 0))}

DropColumn(t, c) ==
    [dtype |-> [x \in Cols(t) \ {c} |-> t.dtype[x]],
     rows  |-> [i \in 1..Len(t.rows) |-> [x \in Cols(t) \ {c} |-> t.rows[i][x]]]]

\* The column c as text of dtype object, as in a table that was not cleaned.
AsObject(t, c) ==
    SetColumn(t, c, "object",
        [i \in 1..Len(t.rows) |-> Str(AsTypeStr(t.dtype[c], t.rows[i][c]))])

CleanRows(kind) == IF kind = "sales" THEN SalesCleanRows ELSE LeadsCleanRows
LongRows(kind) == IF kind = "sales" THEN SalesLongRows ELSE LeadsLongRows
CleanDtype(kind) == IF kind = "sales" THEN SalesDtype ELSE LeadsDtype

\* Cleaned tables with every column of the kind's rules.
FullTables(kind) ==
    {[dtype |-> CleanDtype(kind), rows |-> r] :
        r \in SeqsOf(CleanRows(kind), 0, MaxRuleRows)
              \cup SeqsOf(LongRows(kind), MaxRuleRows + 1, MaxLongRows)}

\* Tables with one column missing, or with one numeric column left as text.
VariantTables(kind) ==
    LET base == {[dtype |-> CleanDtype(kind), rows |-> r] :
                    r \in SeqsOf(CleanRows(kind), 0, MaxVariantRows)}
    IN  {DropColumn(t, c) : t \in base, c \in DOMAIN CleanDtype(kind)}
        \cup {AsObject(t, c) : t \in base,
                c \in {x \in DOMAIN CleanDtype(kind) :
                          CleanDtype(kind)[x] \in NumericDtypes}}

RuleTables(kind) == FullTables(kind) \cup VariantTables(kind)

Kinds == {"sales", "leads"}

InitRules ==
    /\ pc \in {"ready", "cleaned"}
    /\ dataset \in Kinds
    /\ nullable = FALSE
    /\ df \in RuleTables(dataset)
    /\ raw = df
    /\ check = NoCheck
    /\ results = <<>>
    /\ report = NoReport
    /\ NoRuns

AllRuleIds == {SalesRules[i] : i \in 1..Len(SalesRules)}
                \cup {LeadsRules[i] : i \in 1..Len(LeadsRules)}

\* What a check can give: the mask of a rule of rules.py, and for a Rule
\* built by the caller also a value that is no Series, or an exception.
Outcomes(rule_id, t) ==
    IF rule_id \in AllRuleIds THEN {Check(rule_id, t)}
    ELSE {NoSum, Raise("Exception")}

\* One call rule.run(df) outside run_validations.
RunCheck ==
    /\ pc = "ready"
    /\ \E rule_id \in AllRuleIds \cup {"custom"} :
         \E out \in Outcomes(rule_id, df) :
            LET r == RuleRun(rule_id, df, out)
            IN  /\ check' = [rule_id |-> rule_id, out |-> out]
                /\ IF r.kind = "raise"
                   THEN pc' = "raised" /\ results' = results
                   ELSE pc' = "returned" /\ results' = <<r>>
    /\ UNCHANGED <<dataset, nullable, raw, df, report, clock, runs, files>>

\* run_validations: rules = get_rules_for_dataset(dataset); results = {}
StartValidations ==
    /\ pc = "cleaned"
    /\ pc' = IF get_rules_for_dataset(dataset).ok THEN "validating" ELSE "raised"
    /\ results' = <<>>
    /\ UNCHANGED <<dataset, nullable, raw, df, check, report, clock, runs, files>>

\* run_validations: one turn of the loop, r = rule.run(df) and
\* results[rule.rule_id] = r; an exception of rule.run ends the run.
RunRule ==
    /\ pc = "validating"
    /\ Len(results) < Len(get_rules_for_dataset(dataset).rules)
    /\ LET rule_id == get_rules_for_dataset(dataset).rules[Len(results) + 1]
           out == Check(rule_id, df)
           r == RuleRun(rule_id, df, out)
       IN  /\ check' = [rule_id |-> rule_id, out |-> out]
           /\ df' = AfterRun(df, out)
           /\ IF r.kind = "raise"
              THEN pc' = "raised" /\ results' = results
              ELSE pc' = pc /\ results' = Append(results, r)
    /\ UNCHANGED <<dataset, nullable, raw, report, clock, runs, files>>

\* run_validations: return results
ReturnResults ==
    /\ pc = "validating"
    /\ Len(results) = Len(get_rules_for_dataset(dataset).rules)
    /\ pc' = "validated"
    /\ UNCHANGED <<dataset, nullable, raw, df, check, results, report,
                   clock, runs, files>>

NextRules == RunCheck \/ StartValidations \/ RunRule \/ ReturnResults

SpecRules == InitRules /\ [][NextRules]_vars


\* The result of the rule last run, when its check raised nothing.
HasResult == check.out.kind \in {"mask", "nosum"} /\ results # <<>>
Last == results[Len(results)]
TrueRows(mask) == {i \in DOMAIN mask : mask[i]}

\* The position of the n-th TRUE of the mask.
NthTrue(mask, n) ==
    CHOOSE i \in TrueRows(mask) : Cardinality({h \in TrueRows(mask) : h <= i}) = n

Min(a, b) == IF a < b THEN a ELSE b

KeyColumn(rule_id) == IF rule_id = S006 THEN "order_id" ELSE "lead_id"

\* The rows of df whose key column holds the value of row i.
Sharing(c, i) == {j \in 1..Len(df.rows) : df.rows[j][c] = df.rows[i][c]}

\* C2: S006_order_id_unique and L005_lead_id_unique flag exactly the rows
\* whose key value occurs more than once in the table, the first occurrence
\* included, and failed_count is the number of those rows.
C2_UniquenessFlagsAll ==
    (check.rule_id \in {S006, L005} /\ check.out.kind = "mask") =>
        LET c == KeyColumn(check.rule_id)
            shared == {i \in 1..Len(df.rows) : Cardinality(Sharing(c, i)) > 1}
        IN  /\ TrueRows(check.out.mask) = shared
            /\ HasResult
            /\ Last.rule_id = check.rule_id
            /\ Last.failed_count = Cardinality(shared)
            /\ \A i \in 1..Len(Last.failed_sample) :
                  \E j \in shared : Last.failed_sample[i] = df.rows[j]

\* order_id [10, 10, 20]: failed_count 2, both rows of id 10 in the sample.
C2_Witness ==
    /\ check.rule_id = S006
    /\ check.out.kind = "mask"
    /\ Len(df.rows) = 3
    /\ df.rows[1]["order_id"] = Num(1, 1)
    /\ df.rows[2]["order_id"] = Num(1, 1)
    /\ df.rows[3]["order_id"] = Num(2, 1)
    /\ df.rows[1] # df.rows[2]
    /\ HasResult
    /\ Last.failed_count = 2
    /\ Last.failed_sample = <<df.rows[1], df.rows[2]>>

IsQty2Price100(r) == r["qty"] = Num(2, 0) /\ r["unit_price"] = Num(1, 2)

RevenueRuleRan == check.rule_id = S004 /\ check.out.kind = "mask"

\* C3 as claimed: with qty 2 and unit_price 100, revenue 199 and 198 pass and
\* 197.9 fails; a null revenue fails.
C3_Original ==
    RevenueRuleRan =>
        \A i \in 1..Len(df.rows) :
            LET r == df.rows[i]
                flagged == check.out.mask[i]
            IN  /\ IsNull(r["revenue"]) => flagged
                /\ IsQty2Price100(r) =>
                      /\ r["revenue"] = Num(199, 0) => ~flagged
                      /\ r["revenue"] = Num(198, 0) => ~flagged
                      /\ r["revenue"] = Num(1979, -1) => flagged

\* C3 (amended): with qty 2 and unit_price 100, revenue 199 passes
\* (|200 - 199| = 1 is not > 1), revenue 198 fails (|200 - 198| = 2 > 1) and
\* revenue 197.9 fails; a row with null revenue always fails.
C3_RevenueTolerance ==
    RevenueRuleRan =>
        \A i \in 1..Len(df.rows) :
            LET r == df.rows[i]
                flagged == check.out.mask[i]
            IN  /\ IsNull(r["revenue"]) => flagged
                /\ IsQty2Price100(r) =>
                      /\ r["revenue"] = Num(199, 0) => ~flagged
                      /\ r["revenue"] = Num(198, 0) => flagged
                      /\ r["revenue"] = Num(1979, -1) => flagged

\* S004 ran on rows of qty 2 and unit_price 100 with revenue 199, 198 and
\* 197.9.
C3_Witness ==
    /\ RevenueRuleRan
    /\ Len(df.rows) = 3
    /\ \A i \in 1..3 : IsQty2Price100(df.rows[i])
    /\ df.rows[1]["revenue"] = Num(199, 0)
    /\ df.rows[2]["revenue"] = Num(198, 0)
    /\ df.rows[3]["revenue"] = Num(1979, -1)
    /\ check.out.mask = <<FALSE, TRUE, TRUE>>
    /\ HasResult
    /\ Last.failed_count = 2

IsZeroFailures(r) ==
    r.status = "PASS" /\ r.failed_count = 0 /\ r.failed_sample = <<>>

\* C4 as claimed: a check that cannot be evaluated gives a zero-failure
\* result and the run goes on.
C4_Original ==
    check.out.kind \in {"raise", "nosum"} =>
        /\ pc # "raised"
        /\ results # <<>>
        /\ Last.rule_id = check.rule_id
        /\ IsZeroFailures(Last)

\* C4 (amended): a check that returns a value without a sum gives a
\* zero-failure result (PASS, 0, empty sample); a check that raises (a missing
\* column, text where numbers are needed) gives no result: the exception
\* leaves Rule.run and run_validations, no later rule is evaluated and no
\* results are returned.
C4_RaiseAborts ==
    /\ check.out.kind = "nosum" =>
          pc = "returned" /\ results # <<>> /\ Last.rule_id = check.rule_id
                          /\ IsZeroFailures(Last)
    /\ check.out.kind = "raise" =>
          /\ pc = "raised"
          /\ \A i \in 1..Len(results) : results[i].rule_id # check.rule_id
          /\ ~ENABLED NextRules
    /\ pc = "validated" => check.out.kind = "mask"

\* run_validations stopped at S004, whose check met a text column, after
\* three rules had results.
C4_Witness ==
    /\ pc = "raised"
    /\ check.rule_id = S004
    /\ check.out = Raise("TypeError")
    /\ Len(results) = 3

\* C7: failed_count is the number of TRUE entries of the mask, and status is
\* PASS exactly when failed_count is 0 and FAIL otherwise.
C7_FailedCountAndStatus ==
    (HasResult /\ check.out.kind = "mask") =>
        /\ Last.rule_id = check.rule_id
        /\ Last.failed_count = Cardinality(TrueRows(check.out.mask))
        /\ Last.status = "PASS" <=> Last.failed_count = 0
        /\ Last.status = "FAIL" <=> Last.failed_count # 0

\* A rule ran on a table where it flags some rows and not others.
C7_Witness ==
    /\ HasResult
    /\ check.out.kind = "mask"
    /\ Len(df.rows) = 3
    /\ Last.failed_count = 2
    /\ Last.status = "FAIL"

\* C8: failed_sample holds min(5, failed_count) rows: the first rows of the
\* table, in order, whose mask entry is TRUE, each with every column.
C8_FailedSample ==
    (HasResult /\ check.out.kind = "mask") =>
        LET sample == Last.failed_sample
            mask == check.out.mask
        IN  /\ Len(sample) = Min(5, Cardinality(TrueRows(mask)))
            /\ \A i \in 1..Len(sample) :
                  /\ sample[i] = df.rows[NthTrue(mask, i)]
                  /\ DOMAIN sample[i] = Cols(df)

\* Six rows fail and the sample holds the first five.
C8_Witness ==
    /\ HasResult
    /\ check.out.kind = "mask"
    /\ Last.failed_count = 6
    /\ Len(Last.failed_sample) = 5
    /\ Last.failed_sample[5] = df.rows[5]
    /\ df.rows[5] # df.rows[6]


\* Every order of the rules is tried on the tables of up to this many rows.
MaxOrderRows == 1

\* The rule list of the run and its rearrangements.
Rules == get_rules_for_dataset(dataset).rules
Orders == {p \in [1..Len(Rules) -> 1..Len(Rules)] :
              \A i, j \in 1..Len(Rules) : p[i] = p[j] => i = j}

\* C13: run_validations runs the rules in declaration order against one
\* unchanged table: the table is never modified, the k-th result is that of
\* the k-th declared rule and equals the result of that rule run alone on the
\* table, and once all results are returned, running the rules in any other
\* order gives every rule the same result (tried on the tables of at most
\* MaxOrderRows rows).
C13_OrderIndependent ==
    pc \in {"validating", "validated", "raised"} =>
        /\ df = raw
        /\ Len(results) <= Len(Rules)
        /\ \A k \in 1..Len(results) :
              /\ results[k].rule_id = Rules[k]
              /\ results[k] = RuleRun(Rules[k], raw, Check(Rules[k], raw))
        /\ pc = "validated" => Len(results) = Len(Rules)
        /\ (pc = "validated" /\ Len(raw.rows) <= MaxOrderRows) =>
                 \A p \in Orders :
                    RunInOrder([k \in 1..Len(Rules) |-> Rules[p[k]]], raw)
                        = [k \in 1..Len(Rules) |-> results[p[k]]]

\* All six sales rules returned results on a one-row table, the first and
\* the fourth failing and the second and third passing.
C13_Witness ==
    /\ pc = "validated"
    /\ dataset = "sales"
    /\ Len(df.rows) = 1
    /\ Len(results) = 6
    /\ results[1].failed_count = 1
    /\ results[4].failed_count = 1
    /\ results[2].failed_count = 0
    /\ results[3].failed_count = 0


(***************************************************************************)
(* clean_validate.clean_dataset                                            *)
(***************************************************************************)
RemoveChar(s, a) == SelectSeq(s, LAMBDA ch : ch # a)

\* str.replace(r"\D+", "", regex=True)
KeepDigits(s) == SelectSeq(s, LAMBDA ch : ch \in DigitChars)

Cleaned(t) == [kind |-> "cleaned", df |-> t]

\* if df["revenue"].dtype == "object": remove the dots, turn the comma into a
\* dot and coerce again
RevenueFallback(t, nb) ==
    IF t.dtype["revenue"] = "object"
    THEN coerce_numeric(
            SetColumn(t, "revenue", "object",
                [i \in 1..Len(t.rows) |->
                    Str(ReplaceChar(
                          RemoveChar(AsTypeStr(t.dtype["revenue"],
                                               t.rows[i]["revenue"]), "."),
                          ",", "."))]),
            <<"revenue">>, nb)
    ELSE t

CleanSales(t, nb) ==
    LET a == normalize_strings(t, <<"region", "channel", "product", "notes">>)
        b == parse_dates_flex(a, "order_date")
        Revenue(c) ==
            IF "revenue" \notin Cols(c) THEN Raise("KeyError")
            ELSE Cleaned(RevenueFallback(c, nb))
    IN  Revenue(coerce_numeric(b,
            <<"order_id", "customer_id", "qty", "unit_price", "revenue">>, nb))

CleanLeads(t, nb) ==
    LET a == normalize_strings(t, <<"source", "status", "city", "notes", "email">>)
        b == parse_dates_flex(a, "created_at")
        Phone(c) ==
            IF "phone" \notin Cols(c) THEN Raise("KeyError")
            ELSE Cleaned(SetColumn(c, "phone", "object",
                    [i \in 1..Len(c.rows) |->
                        Str(KeepDigits(AsTypeStr(c.dtype["phone"],
                                                 c.rows[i]["phone"])))]))
    IN  Phone(coerce_numeric(b, <<"lead_id", "score">>, nb))

\* The column names, in table order, of the tables of the model.
ColumnOrder ==
    <<"order_id", "order_date", "customer_id", "region", "channel", "product",
      "qty", "unit_price", "revenue", "notes", "lead_id", "created_at",
      "email", "phone", "source", "status", "city", "score", "event_date",
      "updated_at", "label">>

\* c.lower().endswith(("date", "_at", "timestamp"))
DateLikeCols == {"order_date", "created_at", "event_date", "updated_at"}

RECURSIVE ParseDateLike(_, _)
ParseDateLike(t, cols) ==
    IF cols = <<>> THEN t
    ELSE ParseDateLike(
            IF Head(cols) \in Cols(t) /\ Head(cols) \in DateLikeCols
            THEN parse_dates_flex(t, Head(cols)) ELSE t,
            Tail(cols))

CleanGeneric(t) ==
    ParseDateLike(
        normalize_strings(t,
            SelectSeq(ColumnOrder,
                LAMBDA c : c \in Cols(t) /\ t.dtype[c] = "object")),
        ColumnOrder)

PrimaryKey(kind) ==
    IF kind = "sales" THEN "order_id" ELSE IF kind = "leads" THEN "lead_id" ELSE ""

DedupOnKeyMut(t, kind) == t

\* if pk and pk in df.columns: df = deduplicate(df, subset=[pk])
DedupOnKey(t, kind) ==
    IF PrimaryKey(kind) # "" /\ PrimaryKey(kind) \in Cols(t)
    THEN deduplicate(t, {PrimaryKey(kind)}) ELSE t

clean_dataset(t, kind, nb) ==
    LET Deduplicated(r) ==
            IF r.kind = "raise" THEN r ELSE Cleaned(DedupOnKey(r.df, kind))
    IN  Deduplicated(IF kind = "sales" THEN CleanSales(t, nb)
                     ELSE IF kind = "leads" THEN CleanLeads(t, nb)
                     ELSE Cleaned(CleanGeneric(t)))


(***************************************************************************)
(* Spec: one run of the pipeline, clean_dataset, run_validations, the      *)
(* cleaned CSV and the report, from a raw table as read_csv_safely gives   *)
(* it: every column of dtype object, every cell a text or null             *)
(***************************************************************************)
MaxRawRows == 2
MaxMissing == 1
MaxLongRaw == 6

SalesRawRows ==
    {[order_id |-> Str(<<"1", "0">>),
      order_date |-> Str(<<"0", "3", "/", "0", "4", "/", "2", "0", "2", "4">>),
      customer_id |-> Str(<<"7">>),
      region |-> Str(<<" ", " ", "n", "o", "r", "t", "h", " ", " ", " ", "e", "a", "s", "t", " ">>),
      channel |-> Str(<<"W", "e", "b", " ">>),
      product |-> Str(<<"w", "i", "d", "g", "e", "t">>), qty |-> Str(<<"2">>),
      unit_price |-> Str(<<"1", "0", "0", "0">>),
      revenue |-> Str(<<"2", "0", "0", "0">>), notes |-> NULL],
     [order_id |-> Str(<<"1", "0", ".", "0">>),
      order_date |-> Str(<<"2", "5", "/", "1", "2", "/", "2", "0", "2", "4">>),
      customer_id |-> NULL, region |-> NULL, channel |-> NULL,
      product |-> Str(<<"G", "A", "D", "G", "E", "T">>), qty |-> Str(<<"0">>),
      unit_price |-> Str(<<"$", "1", "0", "0">>),
      revenue |-> Str(<<"1", ".", "2", "3", "4", ",", "5", "6">>),
      notes |-> Str(<<"x">>)],
     [order_id |-> NULL,
      order_date |-> Str(<<"2", "0", "2", "4", "-", "1", "3", "-", "4", "5">>),
      customer_id |-> Str(<<"a", "b", "c">>), region |-> Str(<<" ", " ">>),
      channel |-> Str(<<"w", "e", "b">>), product |-> NULL,
      qty |-> Str(<<"a", "b", "c">>), unit_price |-> NULL, revenue |-> NULL,
      notes |-> NULL]}

LeadsRawRows ==
    {[lead_id |-> Str(<<"1">>),
      created_at |-> Str(<<"0", "3", "/", "0", "4", "/", "2", "0", "2", "4">>),
      email |-> Str(<<"A", "@", "b", ".", "c", "o", " ">>),
      phone |-> Str(<<"(", "3", "0", "0", ")", " ", "1", "2", "3", "-", "4", "5", "6", "7">>),
      source |-> Str(<<"W", "e", "b">>), status |-> Str(<<"N", "E", "W">>),
      city |-> Str(<<"b", "o", "g", "o", "t", "a">>),
      score |-> Str(<<"5", "0">>), notes |-> NULL],
     [lead_id |-> Str(<<"1", ".", "0">>),
      created_at |-> Str(<<"2", "0", "2", "4", "-", "1", "3", "-", "4", "5">>),
      email |-> Str(<<"n", "o", "t", "-", "a", "n", "-", "e", "m", "a", "i", "l">>),
      phone |-> Str(<<"1", "2", "3">>), source |-> NULL,
      status |-> Str(<<"n", "e", "w">>), city |-> NULL,
      score |-> Str(<<"1", "0", "1">>), notes |-> Str(<<"x">>)],
     [lead_id |-> NULL, created_at |-> NULL, email |-> NULL, phone |-> NULL,
      source |-> Str(<<"a", "d", "s">>), status |-> NULL,
      city |-> Str(<<"C", "A", "L", "I">>), score |-> NULL, notes |-> NULL]}

EventsRawRows ==
    {[event_date |-> Str(<<"0", "3", "/", "0", "4", "/", "2", "0", "2", "4">>),
      updated_at |-> Str(<<"0", "4", "/", "1", "3", "/", "2", "0", "2", "4">>),
      label |-> Str(<<" ", "A", " ", " ", "b", " ">>)],
     [event_date |-> Str(<<"2", "5", "/", "1", "2", "/", "2", "0", "2", "4">>),
      updated_at |-> NULL, label |-> NULL]}

AllKinds == {"sales", "leads", "events"}

RawRows(kind) ==
    IF kind = "sales" THEN SalesRawRows
    ELSE IF kind = "leads" THEN LeadsRawRows ELSE EventsRawRows

RawCols(kind) == DOMAIN (CHOOSE r \in RawRows(kind) : TRUE)

\* The raw tables of a kind: up to MaxRawRows rows, up to MaxMissing of the
\* kind's columns absent from the file.
RawTables(kind) ==
    {[dtype |-> [c \in RawCols(kind) \ gone |-> "object"],
      rows  |-> [i \in 1..Len(r) |-> [c \in RawCols(kind) \ gone |-> r[i][c]]]] :
        r \in SeqsOf(RawRows(kind), 0, MaxRawRows),
        gone \in {g \in SUBSET RawCols(kind) : Cardinality(g) <= MaxMissing}}

\* A leads row of key i that no rule of L001..L003 accepts as it stands in
\* the file; its email is valid once trimmed when padded.
LeadsLongRow(i, padded) ==
    [lead_id |-> Str(IntToDigits(i)),
     created_at |-> Str(<<"2", "0", "2", "4", "-", "1", "3", "-", "4", "5">>),
     email |-> IF padded THEN Str(<<" ", "a", "@", "b", ".", "c", "o">>)
               ELSE Str(<<"n", "o", "t", "-", "a", "n", "-", "e", "m", "a", "i", "l">>),
     phone |-> Str(<<"1", "2", "3">>),
     source |-> NULL, status |-> NULL, city |-> NULL,
     score |-> Str(<<"5", "0">>), notes |-> NULL]

\* Leads files of MaxLongRaw rows with distinct keys: more failing rows than
\* a failed_sample holds.
LongRawTables(kind) ==
    IF kind = "leads"
    THEN {[dtype |-> [c \in RawCols(kind) |-> "object"],
           rows  |-> [i \in 1..MaxLongRaw |-> LeadsLongRow(i, i \in padded)]] :
            padded \in SUBSET (1..MaxLongRaw)}
    ELSE {}

Init ==
    /\ pc = "loaded"
    /\ dataset \in AllKinds
    /\ nullable \in BOOLEAN
    /\ raw \in RawTables(dataset) \cup LongRawTables(dataset)
    /\ df = raw
    /\ check = NoCheck
    /\ results = <<>>
    /\ report = NoReport
    /\ NoRuns

\* df_clean = clean_dataset(df_raw, args.dataset, logger)
CleanDataset ==
    /\ pc = "loaded"
    /\ \E r \in {clean_dataset(df, dataset, nullable)} :
           IF r.kind = "raise"
           THEN pc' = "raised" /\ df' = df
           ELSE pc' = "cleaned" /\ df' = r.df
    /\ UNCHANGED <<dataset, nullable, raw, check, results, report,
                   clock, runs, files>>

\* write_dataframe(df_clean, clean_path)
WriteClean ==
    /\ pc = "validated"
    /\ pc' = "written"
    /\ UNCHANGED <<dataset, nullable, raw, df, check, results, report,
                   clock, runs, files>>

FailedRules(rs) == Cardinality({i \in 1..Len(rs) : rs[i].status = "FAIL"})

\* build_quality_report: the metrics of the report
BuildReport ==
    /\ pc = "written"
    /\ report' = [built |-> TRUE,
                  raw_rows |-> Len(raw.rows),
                  clean_rows |-> Len(df.rows),
                  failed_rules |-> FailedRules(results),
                  total_rules |-> Len(results)]
    /\ pc' = "done"
    /\ UNCHANGED <<dataset, nullable, raw, df, check, results, clock, runs, files>>

Next ==
    CleanDataset \/ StartValidations \/ RunRule \/ ReturnResults
        \/ WriteClean \/ BuildReport

Spec == Init /\ [][Next]_vars


\* The columns the rules of a kind read.
RuleCols(kind) ==
    IF kind = "sales"
    THEN {"qty", "unit_price", "order_date", "revenue", "region", "order_id"}
    ELSE {"email", "phone", "created_at", "score", "lead_id"}

\* The columns clean_dataset names for a kind, in its column lists, in
\* df["revenue"] or df["phone"], or as the primary key.
CleanCols(kind) ==
    IF kind = "sales"
    THEN {"region", "channel", "product", "notes", "order_date", "order_id",
          "customer_id", "qty", "unit_price", "revenue"}
    ELSE {"source", "status", "city", "notes", "email", "created_at",
          "lead_id", "score", "phone"}

\* No step of the run is left: CleanDataset is possible exactly at "loaded".
Finished ==
    /\ pc # "loaded"
    /\ ~ENABLED (StartValidations \/ RunRule \/ ReturnResults
                    \/ WriteClean \/ BuildReport)

\* C6 as claimed: a run of sales or leads whose input lacks any column that
\* clean_dataset or a rule names raises, before any rule result, cleaned CSV
\* or report.
C6_Original ==
    (dataset \in Kinds
        /\ (CleanCols(dataset) \cup RuleCols(dataset)) \ Cols(raw) # {}) =>
        /\ results = <<>>
        /\ pc \notin {"validated", "written", "done"}
        /\ ~report.built
        /\ Finished => pc = "raised"

\* C6 (amended): a run of sales or leads whose input lacks a column that a
\* rule of the kind reads (among them revenue and phone, which clean_dataset
\* indexes directly) raises KeyError, in clean_dataset or at the first rule
\* that reads the column: no results are returned and no cleaned CSV or
\* report is written.  A run whose input has all of these columns never
\* raises, whichever of the other columns clean_dataset names are missing:
\* those are skipped.
C6_MissingRuleColumnIsFatal ==
    dataset \in Kinds =>
        IF RuleCols(dataset) \ Cols(raw) # {}
        THEN /\ pc \notin {"validated", "written", "done"}
             /\ ~report.built
             /\ Finished => pc = "raised"
             /\ pc = "raised" /\ results # <<>> => check.out = Raise("KeyError")
        ELSE /\ pc # "raised"
             /\ Finished => pc = "done" /\ report.built

\* A sales run without the order_id column raised at S006, after five rules
\* had been evaluated.
C6_Witness ==
    /\ dataset = "sales"
    /\ "order_id" \notin Cols(raw)
    /\ Len(raw.rows) > 0
    /\ pc = "raised"
    /\ check.rule_id = S006
    /\ Len(results) = 5


\* The positions of raw that clean_dataset keeps: the first row of every
\* value of the primary key as coerced to a number, every row when the file
\* has no such column.
Survivors ==
    IF PrimaryKey(dataset) \in Cols(raw)
    THEN KeptFirst(coerce_numeric(raw, <<PrimaryKey(dataset)>>, nullable),
                   {PrimaryKey(dataset)})
    ELSE 1..Len(raw.rows)

\* The row of raw that row j of the cleaned table comes from.
RawRowOf(j) ==
    raw.rows[CHOOSE i \in Survivors :
                Cardinality({h \in Survivors : h <= i}) = j]

NoEmailAsWritten(v) == IsNull(v) \/ ~MatchEmail(v.s)
NoEmailOnceTrimmed(v) == IsNull(v) \/ ~MatchEmail(CollapseSpaces(Strip(v.s)))
NotTenDigits(v) ==
    IsNull(v) \/ Cardinality({i \in 1..Len(v.s) : v.s[i] \in DigitChars}) # 10
NoDate(v) ==
    IsNull(v) \/ (IsNull(ToDatetimeText(v.s, TRUE))
                    /\ IsNull(ToDatetimeText(v.s, FALSE)))

\* One of L001..L003 has just run in a leads run whose file has the three
\* columns.
LeadsRuleRan ==
    /\ dataset = "leads"
    /\ {"email", "phone", "created_at"} \subseteq Cols(raw)
    /\ check.rule_id \in {L001, L002, L003}
    /\ check.out.kind = "mask"

\* Row j of the cleaned table is flagged by the rule last run, and is in its
\* failed_sample, at its rank, when it is among the first five flagged rows.
FlaggedAndSampled(j) ==
    LET rank == Cardinality({h \in 1..j : check.out.mask[h]})
    IN  /\ check.out.mask[j]
        /\ HasResult
        /\ Last.rule_id = check.rule_id
        /\ rank <= 5 => /\ Len(Last.failed_sample) >= rank
                        /\ Last.failed_sample[rank] = df.rows[j]

\* C11 as claimed: the email is judged as it stands in the file.
C11_Original ==
    LeadsRuleRan =>
        \A j \in 1..Len(df.rows) :
            (/\ NoEmailAsWritten(RawRowOf(j)["email"])
             /\ NotTenDigits(RawRowOf(j)["phone"])
             /\ NoDate(RawRowOf(j)["created_at"])) => FlaggedAndSampled(j)

\* C11 (amended): in a leads run every row that survives deduplication, whose
\* raw email does not match local@domain.tld once leading and trailing
\* whitespace is removed and inner whitespace collapsed (or is missing), whose
\* raw phone does not hold exactly 10 digits and whose raw created_at cannot
\* be parsed as a date, is flagged by L001, L002 and L003 and is in the
\* failed_sample of each when among the rule's first five failing rows.
C11_BadLeadFlagged ==
    LeadsRuleRan =>
        /\ Len(df.rows) = Cardinality(Survivors)
        /\ \A j \in 1..Len(df.rows) :
              (/\ NoEmailOnceTrimmed(RawRowOf(j)["email"])
               /\ NotTenDigits(RawRowOf(j)["phone"])
               /\ NoDate(RawRowOf(j)["created_at"])) => FlaggedAndSampled(j)

\* L003 ran on six surviving rows of email "not-an-email", phone "123" and
\* created_at "2024-13-45": L001, L002 and L003 each count six failures and
\* sample the first five.
C11_Witness ==
    /\ LeadsRuleRan
    /\ check.rule_id = L003
    /\ Len(raw.rows) = 6
    /\ Len(df.rows) = 6
    /\ \A i \in 1..6 :
          /\ raw.rows[i]["email"]
                = Str(<<"n", "o", "t", "-", "a", "n", "-", "e", "m", "a", "i", "l">>)
          /\ raw.rows[i]["phone"] = Str(<<"1", "2", "3">>)
    /\ Len(results) = 3
    /\ \A k \in 1..3 : /\ results[k].failed_count = 6
                       /\ Len(results[k].failed_sample) = 5
                       /\ results[k].failed_sample[5] = df.rows[5]


\* C12: for a dataset kind other than "sales" and "leads", clean_dataset
\* returns the table cleaned on the generic path (same columns and rows, text
\* columns normalised, date-like columns parsed, no deduplication), and
\* run_validations then fails in get_rules_for_dataset: no rule is run, no
\* result is produced, nothing is written, and the run ends raised.
C12_UnknownKindIsFatal ==
    dataset \notin Kinds =>
        /\ pc \in {"loaded", "cleaned", "raised"}
        /\ results = <<>>
        /\ check = NoCheck
        /\ ~report.built
        /\ ~get_rules_for_dataset(dataset).ok
        /\ pc # "loaded" =>
              /\ Cols(df) = Cols(raw)
              /\ Len(df.rows) = Len(raw.rows)
              /\ \A c \in Cols(df) :
                    df.dtype[c] = IF c \in DateLikeCols THEN "datetime" ELSE "string"
        /\ Finished => pc = "raised"

\* An events file of two rows was cleaned on the generic path, and rule
\* selection then raised.
C12_Witness ==
    /\ dataset = "events"
    /\ pc = "raised"
    /\ Len(raw.rows) = 2
    /\ Cols(raw) = {"event_date", "updated_at", "label"}
    /\ raw.rows[1]["label"] = Str(<<" ", "A", " ", " ", "b", " ">>)
    /\ df.rows[1]["label"] = Str(<<"A", " ", "b">>)
    /\ df.rows[1]["event_date"].k = "date"
    /\ results = <<>>


\* clean_dataset returned: it raises exactly when the column it indexes
\* directly is missing.
CleanReturned ==
    /\ pc # "loaded"
    /\ (IF dataset = "sales" THEN "revenue" ELSE "phone") \in Cols(raw)

\* C14: in a sales (leads) run whose input has the order_id (lead_id) column,
\* the table clean_dataset returns holds no key value twice, null included,
\* so whenever S006_order_id_unique (L005_lead_id_unique) is run on it its
\* result has failed_count 0, status PASS and an empty sample.
C14_UniquenessNeverFails ==
    (dataset \in Kinds /\ CleanReturned /\ PrimaryKey(dataset) \in Cols(raw)) =>
        /\ PrimaryKey(dataset) \in Cols(df)
        /\ \A i, j \in 1..Len(df.rows) :
              df.rows[i][PrimaryKey(dataset)] = df.rows[j][PrimaryKey(dataset)]
                  => i = j
        /\ \A k \in 1..Len(results) :
              results[k].rule_id \in {S006, L005} => IsZeroFailures(results[k])
        /\ check.rule_id \in {S006, L005} =>
              /\ check.out.kind = "mask"
              /\ results # <<>> /\ Last.rule_id = check.rule_id

\* A sales file whose order_id column reads "10" and "10.0" was cleaned to
\* one row and S006 passed.
C14_Witness ==
    /\ dataset = "sales"
    /\ pc = "done"
    /\ Len(raw.rows) = 2
    /\ raw.rows[1]["order_id"] = Str(<<"1", "0">>)
    /\ raw.rows[2]["order_id"] = Str(<<"1", "0", ".", "0">>)
    /\ Len(df.rows) = 1
    /\ df.rows[1]["order_id"] = Num(1, 1)
    /\ Len(results) = 6
    /\ results[6].rule_id = S006
    /\ results[6].status = "PASS"


DottedRevenue == Str(<<"1", ".", "2", "3", "4", ",", "5", "6">>)

MaxNumRows == 2
MaxTextLen == 3

NumCells ==
    {NULL,
     Str(<<"5">>),
     Str(<<"-", "2", ".", "5">>),
     Str(<<"$", "1", ",", "5">>),
     Str(<<"1", ".", "2", "3", "4", ",", "5", "6">>),
     Str(<<"a", "b", "c">>),
     Str(<<"0", ".", "0", "0", "0", "0", "1">>),
     Str(<<"1", "0", "0", "0", "0", "0", "0", "0", "0", "0", "0", "0", "0", "0", "0", "0", "0">>),
     Str(<<"1", "2", "e", "3">>)}

NumAlphabet == {"0", "1", "-", ".", ",", "$"}

\* One-row columns of every text over NumAlphabet up to MaxTextLen, and
\* columns of up to MaxNumRows cells of NumCells.
NumColumns ==
    {<<Str(s)>> : s \in SeqsOf(NumAlphabet, 1, MaxTextLen)}
        \cup SeqsOf(NumCells, 0, MaxNumRows)

NumTables ==
    {[dtype |-> [revenue |-> "object"],
      rows  |-> [i \in 1..Len(col) |-> [revenue |-> col[i]]]] : col \in NumColumns}

InitNum ==
    /\ pc = "text"
    /\ dataset = "sales"
    /\ nullable \in BOOLEAN
    /\ raw \in NumTables
    /\ df = raw
    /\ check = NoCheck
    /\ results = <<>>
    /\ report = NoReport
    /\ NoRuns

\* df = coerce_numeric(df, ["revenue"]); raw is the table the call was given.
CoerceNumeric ==
    /\ pc \in {"text", "numeric"}
    /\ raw' = df
    /\ df' = coerce_numeric(df, <<"revenue">>, nullable)
    /\ pc' = IF pc = "text" THEN "numeric" ELSE "again"
    /\ UNCHANGED <<dataset, nullable, check, results, report, clock, runs, files>>

NextNum == CoerceNumeric

SpecNum == InitNum /\ [][NextNum]_vars

\* C9: coerce_numeric applied to a column that a first coerce_numeric call
\* made numeric gives the same value in every row, and nulls stay null.
C9_CoerceIdempotent ==
    pc = "again" => \A i \in 1..Len(df.rows) : df.rows[i] = raw.rows[i]

(***************************************************************************)
(* SpecDates: parse_dates_flex applied to a text column                    *)
(***************************************************************************)
MaxDateRows == 3
MaxBlock == 6

DateCells ==
    {NULL,
     Str(<<"0", "3", "/", "0", "4", "/", "2", "0", "2", "4">>),
     Str(<<"2", "5", "/", "1", "2", "/", "2", "0", "2", "4">>),
     Str(<<"1", "2", "/", "2", "5", "/", "2", "0", "2", "4">>),
     Str(<<"2", "0", "2", "4", "-", "1", "3", "-", "4", "5">>),
     Str(<<"2", "0", "2", "4", "-", "0", "4", "-", "0", "3">>)}

Ambiguous == Str(<<"0", "3", "/", "0", "4", "/", "2", "0", "2", "4">>)
DayOnly == Str(<<"2", "5", "/", "1", "2", "/", "2", "0", "2", "4">>)
MonthOnly == Str(<<"1", "2", "/", "2", "5", "/", "2", "0", "2", "4">>)

RECURSIVE Repeat(_, _)
Repeat(v, n) == IF n <= 0 THEN <<>> ELSE <<v>> \o Repeat(v, n - 1)

\* Columns of up to MaxDateRows cells of DateCells, and longer columns made
\* of a block of each of three dates.
DateColumns ==
    SeqsOf(DateCells, 0, MaxDateRows)
        \cup {Repeat(Ambiguous, a) \o Repeat(DayOnly, b) \o Repeat(MonthOnly, c) :
                a \in 0..MaxBlock, b \in 0..MaxBlock, c \in 0..MaxBlock}

DateTables ==
    {[dtype |-> [order_date |-> "object"],
      rows  |-> [i \in 1..Len(col) |-> [order_date |-> col[i]]]] :
        col \in DateColumns}

InitDates ==
    /\ pc = "text"
    /\ dataset = "sales"
    /\ nullable = FALSE
    /\ raw \in DateTables
    /\ df = raw
    /\ check = NoCheck
    /\ results = <<>>
    /\ report = NoReport
    /\ NoRuns

\* df = parse_dates_flex(df, "order_date")
ParseDates ==
    /\ pc = "text"
    /\ df' = parse_dates_flex(df, "order_date")
    /\ pc' = "parsed"
    /\ UNCHANGED <<dataset, nullable, raw, check, results, report,
                   clock, runs, files>>

NextDates == ParseDates

SpecDates == InitDates /\ [][NextDates]_vars

\* The reading of raw cell i as day/month (dayfirst) or as month/day.
Reading(i, dayfirst) ==
    IF IsNull(raw.rows[i]["order_date"]) THEN NULL
    ELSE ToDatetimeText(raw.rows[i]["order_date"].s, dayfirst)

Successes(dayfirst) ==
    Cardinality({i \in 1..Len(raw.rows) : ~IsNull(Reading(i, dayfirst))})

\* C10: the output column is the day-first reading of every row when the
\* day-first success rate is at least the month-first success rate (a tie
\* included), and the month-first reading of every row otherwise; never a mix.
C10_OneReadingPerColumn ==
    pc = "parsed" =>
        /\ Len(df.rows) = Len(raw.rows)
        /\ IF Successes(TRUE) >= Successes(FALSE)
           THEN \A i \in 1..Len(df.rows) :
                    df.rows[i]["order_date"] = Reading(i, TRUE)
           ELSE \A i \in 1..Len(df.rows) :
                    df.rows[i]["order_date"] = Reading(i, FALSE)

\* Ten rows, day-first succeeds on nine and month-first on four: the
\* ambiguous 03/04/2024 is the third of April, and month-only rows are null.
C10_Witness ==
    /\ pc = "parsed"
    /\ Len(raw.rows) = 10
    /\ Successes(TRUE) = 9
    /\ Successes(FALSE) = 4
    /\ raw.rows[1]["order_date"] = Ambiguous
    /\ df.rows[1]["order_date"] = Date(3, 4, 2024)
    /\ raw.rows[10]["order_date"] = MonthOnly
    /\ IsNull(df.rows[10]["order_date"])


(***************************************************************************)
(* SpecRunId: runs of main as separate processes that share the wall clock *)
(* and the output directories                                              *)
(***************************************************************************)
NumRuns == 2
MaxClock == 2

Procs == 1..NumRuns

\* datetime.now().strftime(f"{dataset}_%Y%m%d_%H%M%S"): the kind and the
\* time to the second
build_run_id(kind, now) == [kind |-> kind, stamp |-> now]

NoRunId == [kind |-> "", stamp |-> -1]

log_path(run_id) == <<"logs", "run", run_id>>
clean_path(kind, run_id) == <<"clean", kind, run_id>>
report_md_path(kind, run_id) == <<"reports", kind, "md", run_id>>
report_html_path(kind, run_id) == <<"reports", kind, "html", run_id>>

InitRunId ==
    /\ pc = "runs"
    /\ dataset = ""
    /\ nullable = FALSE
    /\ raw = NoTable
    /\ df = NoTable
    /\ check = NoCheck
    /\ results = <<>>
    /\ report = NoReport
    /\ clock = 0
    /\ runs \in [Procs -> {[pc |-> "idle", kind |-> k, run_id |-> NoRunId] :
                              k \in Kinds}]
    /\ files = {}

Idle == <<pc, dataset, nullable, raw, df, check, results, report>>

\* A second of wall-clock time passes.
Tick ==
    /\ clock < MaxClock
    /\ clock' = clock + 1
    /\ UNCHANGED <<Idle, runs, files>>

\* run_id = build_run_id(args.dataset)
BuildRunId(p) ==
    /\ runs[p].pc = "idle"
    /\ runs' = [runs EXCEPT ![p].pc = "named",
                            ![p].run_id = build_run_id(runs[p].kind, clock)]
    /\ UNCHANGED <<Idle, clock, files>>

Written(p, paths) == files \cup {[path |-> x, by |-> p] : x \in paths}

\* logger = configure_logger(log_path)
OpenLog(p) ==
    /\ runs[p].pc = "named"
    /\ files' = Written(p, {log_path(runs[p].run_id)})
    /\ runs' = [runs EXCEPT ![p].pc = "logging"]
    /\ UNCHANGED <<Idle, clock>>

\* write_dataframe(df_clean, clean_path)
WriteCleanCsv(p) ==
    /\ runs[p].pc = "logging"
    /\ files' = Written(p, {clean_path(runs[p].kind, runs[p].run_id)})
    /\ runs' = [runs EXCEPT ![p].pc = "written"]
    /\ UNCHANGED <<Idle, clock>>

\* build_quality_report(..., out_md_path, out_html_path)
WriteReports(p) ==
    /\ runs[p].pc = "written"
    /\ files' = Written(p, {report_md_path(runs[p].kind, runs[p].run_id),
                            report_html_path(runs[p].kind, runs[p].run_id)})
    /\ runs' = [runs EXCEPT ![p].pc = "done"]
    /\ UNCHANGED <<Idle, clock>>

NextRunId ==
    \/ Tick
    \/ \E p \in Procs : BuildRunId(p)
    \/ \E p \in Procs : OpenLog(p)
    \/ \E p \in Procs : WriteCleanCsv(p)
    \/ \E p \in Procs : WriteReports(p)

SpecRunId == InitRunId /\ [][NextRunId]_vars

\* C5: any two runs have distinct run identifiers, and no output path is
\* written by two runs.
C5_DistinctRunIds ==
    /\ \A p, q \in Procs :
          (p # q /\ runs[p].pc # "idle" /\ runs[q].pc # "idle") =>
              runs[p].run_id # runs[q].run_id
    /\ \A f, g \in files : f.path = g.path => f.by = g.by

====
